---------------------------- MODULE Spec2Model ----------------------------
(***************************************************************************)
(* A model of job_matcher: the company filter and the parser of its       *)
(* input, the detail fetcher get_job_description and the listing fetcher   *)
(* generator scrape_linkedin_jobs (job_scraper.py), the match scorer       *)
(* analyze_job_match (matching_engine.py), the orchestrator JobProcessor   *)
(* and the search button of main (main.py), and the CSV export (utils.py). *)
(*                                                                         *)
(* Text is a sequence of characters, each character a one-token string.    *)
(* Every component has its own variables and its own specification, which  *)
(* leaves the other components' variables untouched; SpecSession composes  *)
(* main, the orchestrator and the generator it drives.                     *)
(***************************************************************************)
EXTENDS Integers, Sequences, FiniteSets, TLC

VARIABLES
  \* ---- should_include_company (one call)
  company,              \* the card's company name, as written on the site
  included_companies,   \* parsed include set
  excluded_companies,   \* parsed exclude set
  filter_pc,            \* "call" before the call, "returned" after it
  include_result,       \* the value returned (FALSE until the call returns)
  \* ---- analyze_job_match (one posting)
  spc,                  \* "enter", "backoff", then "returned" or "raised"
  job,                  \* the posting being scored
  retry_count,          \* the retry_count argument of the current call
  api_calls,            \* client.messages.create calls made so far
  waits,                \* base delays of the backoff waits so far, in order
  sleeping,             \* final (jittered) delay of the wait in progress, 0 if none
  last_signal,          \* outcome of the latest API call
  response,             \* response.content[0].text of a successful call
  result,               \* the scored posting analyze_job_match returned
  \* ---- scrape_linkedin_jobs (one call, stream_jobs=True)
  fpc,                  \* position in the generator
  suspended,            \* the generator is suspended at a yield
  yielded,              \* the posting handed over at the current yield
  included,             \* parse_company_list(included_companies)
  excluded,             \* parse_company_list(excluded_companies)
  start,                \* offset of the next page request
  total_jobs_found,
  filtered_count,
  job_cards,            \* the cards of the page being processed
  card_idx,             \* position of the for loop in job_cards
  sample_idx,           \* position of `yield from get_sample_jobs(...)`
  real_yielded,         \* number of fetched postings yielded so far
  samples_yielded,      \* the sample postings yielded so far, in order
  catastrophic,         \* an exception reached the handler at line 173
  site,                 \* "up", or "down": every page request fails from now on
  pages_served,         \* non-empty pages the site has returned
  last_request,         \* how the latest page request ended
  detail_call,          \* the get_job_description call made for the current card
  cards_served,         \* cards on the pages the site has returned, in all
  page_pool,            \* the kind of pages this site returns
  \* ---- JobProcessor.process_jobs (one search) and st.session_state
  opc,                  \* position in process_jobs
  search_count,
  analysis_count,
  cur_job,              \* the posting the generator handed over
  analyzed_job,         \* analyze_matches(resume_text, [job])[0]
  analyzed_jobs,        \* self.analyzed_jobs, in arrival order
  top_matches,          \* st.session_state.top_matches
  matched_jobs,         \* what process_jobs returned (st.session_state.matched_jobs)
  progress,             \* the ProgressManager's two placeholders and total_jobs
  job_error,            \* process_jobs reported "Error in job processing"
  \* ---- main: the search button of one interactive session
  mpc,                  \* "ready" for a press of the button, "processing"
  uploaded_file,        \* the uploader: "none", "pdf", or "bad" (not extractable)
  api_key,              \* ANTHROPIC_API_KEY is set in the environment
  analysis_complete,    \* st.session_state.analysis_complete
  searches,             \* presses of the search button so far
  session_postings,     \* postings process_jobs has received in this session
  main_error,           \* the error the latest press reported from main
  \* ---- export_to_csv (one call)
  csv_rows,             \* the rows of matches_df: scored postings
  csv_pc,               \* "call" before the call, "returned" after it
  csv_text,             \* the text returned
  \* ---- get_job_description (one call)
  dpc,                  \* "call" before the call, "returned" or "raised" after it
  detail_response,      \* how the request for the posting's page ends
  detail_page,          \* the elements of the page, in document order
  detail_result,        \* the description returned, and whether the call paused
  \* ---- parse_company_list (one call)
  companies_text,       \* the text of the filter input
  parse_pc,             \* "call" before the call, "returned" after it
  parsed                \* the set returned

filterVars == <<company, included_companies, excluded_companies, filter_pc,
                include_result>>
scoreVars  == <<spc, job, retry_count, api_calls, waits, sleeping, last_signal,
                response, result>>
fetchVars  == <<fpc, suspended, yielded, included, excluded, start,
                total_jobs_found, filtered_count, job_cards, card_idx,
                sample_idx, real_yielded, samples_yielded, catastrophic, site,
                pages_served, last_request, detail_call,
                cards_served, page_pool>>
orchVars   == <<opc, search_count, analysis_count, cur_job, analyzed_job,
                analyzed_jobs, top_matches, matched_jobs, progress, job_error>>
mainVars   == <<mpc, uploaded_file, api_key, analysis_complete, searches,
                session_postings, main_error>>
csvVars    == <<csv_rows, csv_pc, csv_text>>
detailVars == <<dpc, detail_response, detail_page, detail_result>>
parseVars  == <<companies_text, parse_pc, parsed>>
vars == <<filterVars, scoreVars, fetchVars, orchVars, mainVars, csvVars,
          detailVars, parseVars>>

\* What a step of one component leaves alone: the other components.
notFilter == <<scoreVars, fetchVars, orchVars, mainVars, csvVars,
               detailVars, parseVars>>
notScore  == <<filterVars, fetchVars, orchVars, mainVars, csvVars,
               detailVars, parseVars>>
notFetch  == <<filterVars, scoreVars, orchVars, mainVars, csvVars,
               detailVars, parseVars>>
notOrch   == <<filterVars, scoreVars, fetchVars, mainVars, csvVars,
               detailVars, parseVars>>
notCsv    == <<filterVars, scoreVars, fetchVars, orchVars, mainVars,
               detailVars, parseVars>>
notDetail == <<filterVars, scoreVars, fetchVars, orchVars, mainVars, csvVars,
               parseVars>>
notParse  == <<filterVars, scoreVars, fetchVars, orchVars, mainVars, csvVars,
               detailVars>>

Min(a, b) == IF a < b THEN a ELSE b

Range(s) == {s[i] : i \in 1..Len(s)}

\* All sequences over alphabet A of length 0..n.
SeqsUpTo(A, n) == UNION {[1..k -> A] : k \in 0..n}

(***************************************************************************)
(* Company filter                                                          *)
(***************************************************************************)

\* Longest company name drawn.
MaxCompanyLen == 3

CompanyAlphabet == {"A", "a", "b"}

\* Filter entries as parse_company_list produces them: trimmed, lowercase,
\* non-empty.
FilterEntries == {<<"a">>, <<"b">>, <<"a", "b">>, <<"b", "a">>}

\* str.lower() on one character.
LowerChar(ch) == IF ch = "A" THEN "a" ELSE ch

\* str.lower()
Lower(s) == [i \in 1..Len(s) |-> LowerChar(s[i])]

\* Python's `sub in s` on strings.
Contains(sub, s) ==
  \E i \in 0..(Len(s) - Len(sub)) : SubSeq(s, i + 1, i + Len(sub)) = sub

\* A bug: the included set is consulted before the excluded set.
should_include_company_included_first(c, incl, excl) ==
  LET lc == Lower(c) IN
  IF incl # {} /\ (\E i \in incl : Contains(i, lc)) THEN TRUE
  ELSE IF \E e \in excl : Contains(e, lc) THEN FALSE
  ELSE incl = {}

\* A bug: an empty included set matches nothing.
should_include_company_empty_rejects(c, incl, excl) ==
  LET lc == Lower(c) IN
  IF \E e \in excl : Contains(e, lc) THEN FALSE
  ELSE \E i \in incl : Contains(i, lc)

should_include_company(c, incl, excl) ==
  LET lc == Lower(c) IN
  IF \E e \in excl : Contains(e, lc) THEN FALSE
  ELSE IF incl = {} THEN TRUE
  ELSE \E i \in incl : Contains(i, lc)

FilterIdle ==
  /\ company = <<>>
  /\ included_companies = {}
  /\ excluded_companies = {}
  /\ filter_pc = "idle"
  /\ include_result = FALSE

FilterInputs ==
  /\ company \in SeqsUpTo(CompanyAlphabet, MaxCompanyLen)
  /\ included_companies \in SUBSET FilterEntries
  /\ excluded_companies \in SUBSET FilterEntries
  /\ filter_pc = "call"
  /\ include_result = FALSE

CallShouldInclude ==
  /\ filter_pc = "call"
  /\ filter_pc' = "returned"
  /\ include_result' =
       should_include_company(company, included_companies, excluded_companies)
  /\ UNCHANGED <<company, included_companies, excluded_companies>>
  /\ UNCHANGED notFilter

(***************************************************************************)
(* Match scorer                                                            *)
(***************************************************************************)

\* Longest LLM response text drawn.
MaxTextLen == 5

\* Characters of a response: decimal digits, the separator, whitespace, a
\* letter, and SUP2, the superscript two (U+00B2), a character for which
\* str.isdigit() is True and which int() does not accept.
ResponseAlphabet == {"0", "1", "|", " ", "a", "SUP2"}

\* Postings handed to the scorer: a fetched one and a sample one.
ScorePostings ==
  { [title |-> "t1", company |-> "Ab", location |-> "loc",
     description |-> "d1", posted_date |-> "p1", url |-> "u1"],
    [title |-> "Senior role", company |-> "Tech Corp Inc", location |-> "loc",
     description |-> "sample 1", posted_date |-> "p2", url |-> "None"] }

max_retries == 5
base_delay == 20
max_delay == 120

\* random.uniform(0.5, 1.5), in halves: 0.5, 1.0, 1.5.
JitterHalves == {1, 2, 3}

\* str.isdigit() on one character.
IsDigit(ch) == ch \in {"0", "1", "SUP2"}

\* The characters int() accepts in a digit string.
IsDecimal(ch) == ch \in {"0", "1"}

DigitValue(ch) == IF ch = "1" THEN 1 ELSE 0

\* str.isspace() on one character ("NL" is the newline).
IsSpace(ch) == ch \in {" ", "NL"}

RECURSIVE LStrip(_)
LStrip(s) == IF s # <<>> /\ IsSpace(Head(s)) THEN LStrip(Tail(s)) ELSE s

RECURSIVE RStrip(_)
RStrip(s) ==
  IF s # <<>> /\ IsSpace(s[Len(s)]) THEN RStrip(SubSeq(s, 1, Len(s) - 1)) ELSE s

\* str.strip()
Strip(s) == RStrip(LStrip(s))

\* int(d) for a non-empty string of decimal digits.
RECURSIVE IntOf(_)
IntOf(d) ==
  IF d = <<>> THEN 0
  ELSE 10 * IntOf(SubSeq(d, 1, Len(d) - 1)) + DigitValue(d[Len(d)])

\* Position of the first '|' of a text that holds one.
FirstBar(t) ==
  CHOOSE i \in 1..Len(t) : t[i] = "|" /\ \A k \in 1..(i - 1) : t[k] # "|"

\* {**job, "match_score": score, "match_reasoning": reasoning}
Scored(j, score, reasoning) ==
  [match_score |-> score, match_reasoning |-> reasoning] @@ j

Returned(v) == [pc |-> "returned", value |-> v]

\* The posting with no score: what `result` holds until the call returns.
Unscored(j) == Scored(j, 0, <<>>)

\* A bug: the exception is passed on to the caller.
OuterExceptReraises(j, e) == [pc |-> "raised", value |-> Unscored(j)]

\* except Exception as e (lines 120-122)
OuterExcept(j, e) ==
  Returned(Scored(j, 0, <<"Error during analysis", e>>))

\* except Exception as parse_error (lines 115-118)
ParseExcept(j) == Returned(Scored(j, 0, <<"Error parsing analysis results">>))

\* Lines 83-118, for response_text = text.strip().
ParseResponse(j, text) ==
  LET stripped == Strip(text) IN
  IF "|" \notin Range(stripped) THEN ParseExcept(j)
  ELSE
    LET bar == FirstBar(stripped)
        score_part == SubSeq(stripped, 1, bar - 1)
        reasoning == SubSeq(stripped, bar + 1, Len(stripped))
        digits == SelectSeq(score_part, IsDigit)
        match_score == IntOf(digits)
        match_reasoning == Strip(reasoning)
    IN IF digits = <<>> THEN ParseExcept(j)
       ELSE IF \E i \in 1..Len(digits) : ~IsDecimal(digits[i])
         THEN ParseExcept(j)            \* int(digits) raises ValueError
       ELSE IF match_score < 0 \/ match_score > 100 THEN ParseExcept(j)
       ELSE IF match_reasoning = <<>> THEN ParseExcept(j)
       ELSE Returned(Scored(j, match_score, match_reasoning))

\* A bug: the delay is not capped.
BackoffDelayUncapped(rc) == base_delay * (2 ^ rc)

\* delay of wait_with_backoff(rc), before jitter (line 21)
BackoffDelay(rc) == Min(base_delay * (2 ^ rc), max_delay)

\* A bug: one more retry is allowed.
CanRetryOneMore(rc) == rc <= max_retries

\* if retry_count < max_retries (line 75)
CanRetry(rc) == rc < max_retries

\* The argument wait_with_backoff is called with (lines 76-77).
BackoffArgument(rc) == rc + 1

ScoreIdle ==
  /\ spc = "idle"
  /\ job = CHOOSE j \in ScorePostings : TRUE
  /\ retry_count = 0
  /\ api_calls = 0
  /\ waits = <<>>
  /\ sleeping = 0
  /\ last_signal = "none"
  /\ response = <<>>
  /\ result = Unscored(job)

\* analyze_job_match(resume_text, job, client) has just been called.
ScoreInputs ==
  /\ spc = "enter"
  /\ job \in ScorePostings
  /\ retry_count = 0
  /\ api_calls = 0
  /\ waits = <<>>
  /\ sleeping = 0
  /\ last_signal = "none"
  /\ response = <<>>
  /\ result = Unscored(job)

\* client.messages.create returns a message; the rest of the function runs
\* (lines 62-72, 82-118).
ApiSuccess ==
  /\ spc = "enter"
  /\ \E text \in SeqsUpTo(ResponseAlphabet, MaxTextLen) :
       /\ response' = text
       /\ spc' = ParseResponse(job, text).pc
       /\ result' = ParseResponse(job, text).value
  /\ api_calls' = api_calls + 1
  /\ last_signal' = "ok"
  /\ UNCHANGED <<job, retry_count, waits, sleeping>>
  /\ UNCHANGED notScore

\* A bug: every exception of the API call is retried.
RetriedSignalsAll == {"rate_limit", "error"}

\* except anthropic.RateLimitError (line 74): the one exception of
\* client.messages.create that leads to another call.
RetriedSignals == {"rate_limit"}

\* client.messages.create raises anthropic.RateLimitError and a retry is
\* left: retry_count += 1; wait_with_backoff(retry_count) (lines 74-77).
ApiRateLimitedRetry ==
  /\ spc = "enter"
  /\ CanRetry(retry_count)
  /\ retry_count' = retry_count + 1
  /\ waits' = Append(waits, BackoffDelay(BackoffArgument(retry_count)))
  /\ \E jitter \in JitterHalves :
       sleeping' = (BackoffDelay(BackoffArgument(retry_count)) * jitter) \div 2
  /\ spc' = "backoff"
  /\ api_calls' = api_calls + 1
  /\ \E signal \in RetriedSignals : last_signal' = signal
  /\ UNCHANGED <<job, response, result>>
  /\ UNCHANGED notScore

\* time.sleep(final_delay) is over: the recursive call (line 78), whose
\* return value the caller returns unchanged.
BackoffElapsed ==
  /\ spc = "backoff"
  /\ spc' = "enter"
  /\ sleeping' = 0
  /\ UNCHANGED <<job, retry_count, api_calls, waits, last_signal, response, result>>
  /\ UNCHANGED notScore

\* client.messages.create raises anthropic.RateLimitError and no retry is
\* left: raise Exception (line 80), caught at line 120.
ApiRateLimitedGiveUp ==
  /\ spc = "enter"
  /\ ~CanRetry(retry_count)
  /\ spc' = OuterExcept(job, "Rate limit exceeded after 5 retries").pc
  /\ result' = OuterExcept(job, "Rate limit exceeded after 5 retries").value
  /\ api_calls' = api_calls + 1
  /\ last_signal' = "rate_limit"
  /\ UNCHANGED <<job, retry_count, waits, sleeping, response>>
  /\ UNCHANGED notScore

\* client.messages.create raises any other exception (network, auth, ...),
\* or the message has no content: caught at line 120.
ApiError ==
  /\ spc = "enter"
  /\ spc' = OuterExcept(job, "api error").pc
  /\ result' = OuterExcept(job, "api error").value
  /\ api_calls' = api_calls + 1
  /\ last_signal' = "error"
  /\ UNCHANGED <<job, retry_count, waits, sleeping, response>>
  /\ UNCHANGED notScore

(***************************************************************************)
(* Detail fetcher: get_job_description (job_scraper.py)                    *)
(***************************************************************************)

\* Most elements of a posting's page.
MaxDetailElems == 2

MinOf(S) == CHOOSE x \in S : \A y \in S : x <= y

\* An element of the parsed page: its tag, its class, the keyword its
\* lowercased text contains ("none" for none) and its stripped text.
Elem(tag, cls, mentions, text) ==
  [tag |-> tag, cls |-> cls, mentions |-> mentions, text |-> text]

DivDescriptionText ==
  Elem("div", "description__text", "none", "text of div.description__text")
DivMarkup ==
  Elem("div", "show-more-less-html__markup", "none", "text of div.markup")
DivJobDescription ==
  Elem("div", "job-description", "none", "text of div.job-description")
DivDescription ==
  Elem("div", "description", "none", "text of div.description")
SectionKeyword ==
  Elem("section", "other", "job description", "Job Description of the section")
DivRoleKeyword ==
  Elem("div", "other", "role description", "Role Description of the div")
SpanKeyword ==
  Elem("span", "other", "job description", "Job Description of the span")
Paragraph == Elem("p", "other", "none", "text of p")

DetailElems ==
  {DivDescriptionText, DivMarkup, DivJobDescription, DivDescription,
   SectionKeyword, DivRoleKeyword, SpanKeyword, Paragraph}

\* How the request ends: "ok", or an exception of requests.get ("timeout"),
\* of raise_for_status ("http_error") or of the parser ("parse_error").
DetailResponses == {"ok", "timeout", "http_error", "parse_error"}

DetailFailures == DetailResponses \ {"ok"}

\* The classes of description_selectors, each selector being 'div.<class>'.
description_selectors ==
  <<"description__text", "show-more-less-html__markup", "job-description",
    "description">>

description_keywords ==
  <<"job description", "position description", "role description">>

\* soup.select_one('div.<cls>'): the first match in document order, 0 for None.
select_one(page, cls) ==
  LET m == {i \in 1..Len(page) : page[i].tag = "div" /\ page[i].cls = cls}
  IN  IF m = {} THEN 0 ELSE MinOf(m)

\* soup.find(lambda tag: tag.name in ['div', 'section'] and keyword in text)
find_keyword(page, keyword) ==
  LET m == {i \in 1..Len(page) : /\ page[i].tag \in {"div", "section"}
                                 /\ page[i].mentions = keyword}
  IN  IF m = {} THEN 0 ELSE MinOf(m)

\* The selectors, and the keywords, that find an element.
SelectorHits(page) ==
  {k \in 1..Len(description_selectors) :
     select_one(page, description_selectors[k]) # 0}

KeywordHits(page) ==
  {k \in 1..Len(description_keywords) :
     find_keyword(page, description_keywords[k]) # 0}

DetailSentinel == "Detailed description not available"

\* A return of get_job_description: the text, and whether
\* time.sleep(random.uniform(1, 2)) ran before it.
DetailReturn(description, paused) ==
  [raised |-> FALSE, description |-> description, paused |-> paused]

NoDetailResult == [raised |-> FALSE, description |-> "none", paused |-> FALSE]

\* A bug: the exception is logged and raised again.
DetailExceptReraises ==
  [raised |-> TRUE, description |-> "none", paused |-> FALSE]

\* except Exception: log; then the return of line 226 (lines 223-226)
DetailExcept == DetailReturn(DetailSentinel, FALSE)

\* get_job_description (lines 186-226)
get_job_description(resp, page) ==
  IF resp # "ok" THEN DetailExcept
  ELSE IF SelectorHits(page) # {}
    THEN DetailReturn(
           page[select_one(page,
                  description_selectors[MinOf(SelectorHits(page))])].text,
           FALSE)
  ELSE IF KeywordHits(page) # {}
    THEN DetailReturn(
           page[find_keyword(page,
                  description_keywords[MinOf(KeywordHits(page))])].text,
           FALSE)
  ELSE DetailReturn(DetailSentinel, TRUE)

DetailIdle ==
  /\ dpc = "idle"
  /\ detail_response = "none"
  /\ detail_page = <<>>
  /\ detail_result = NoDetailResult

DetailInputs ==
  /\ dpc = "call"
  /\ detail_response \in DetailResponses
  /\ detail_page \in SeqsUpTo(DetailElems, MaxDetailElems)
  /\ detail_result = NoDetailResult

CallGetJobDescription ==
  /\ dpc = "call"
  /\ LET r == get_job_description(detail_response, detail_page) IN
       /\ detail_result' = r
       /\ dpc' = IF r.raised THEN "raised" ELSE "returned"
  /\ UNCHANGED <<detail_response, detail_page>>
  /\ UNCHANGED notDetail

(***************************************************************************)
(* Filter input: parse_company_list (job_scraper.py)                       *)
(***************************************************************************)

\* Longest text of a filter input.
MaxFilterTextLen == 4

\* The characters of a filter input.
FilterTextAlphabet == {"A", "a", "b", " ", "NL"}

\* str.split('\n'): the pieces between the newlines, in order.
RECURSIVE SplitLines(_)
SplitLines(text) ==
  LET nl == {i \in 1..Len(text) : text[i] = "NL"} IN
    IF nl = {} THEN <<text>>
    ELSE <<SubSeq(text, 1, MinOf(nl) - 1)>> \o
         SplitLines(SubSeq(text, MinOf(nl) + 1, Len(text)))

\* A bug: every line becomes an entry.
KeepLineAlways(line) == TRUE

\* if company.strip() (line 18)
KeepLine(line) == Strip(line) # <<>>

\* parse_company_list (lines 14-18)
parse_company_list(text) ==
  IF text = <<>> THEN {}
  ELSE LET lines == SplitLines(text) IN
         {Lower(Strip(lines[i])) : i \in {k \in 1..Len(lines) : KeepLine(lines[k])}}

ParseIdle ==
  /\ companies_text = <<>>
  /\ parse_pc = "idle"
  /\ parsed = {}

ParseInputs ==
  /\ companies_text \in SeqsUpTo(FilterTextAlphabet, MaxFilterTextLen)
  /\ parse_pc = "call"
  /\ parsed = {}

CallParseCompanyList ==
  /\ parse_pc = "call"
  /\ parsed' = parse_company_list(companies_text)
  /\ parse_pc' = "returned"
  /\ UNCHANGED companies_text
  /\ UNCHANGED notParse

(***************************************************************************)
(* Listing fetcher: the generator scrape_linkedin_jobs, stream_jobs=True   *)
(***************************************************************************)

max_jobs == 3000

\* Non-empty pages the site returns in one run, at most.
MaxPages == 3

\* Longest page of the small-page site.
MaxPageLen == 2

\* Number of cards of a page of the large-page site: two pages pass max_jobs
\* in the middle of the second.
BigPageLen == 1501

\* A card of a result page: whether it has a title element, a company
\* element (and its text), a link element, and whether extracting it raises.
Card(t, c, name, l, b) ==
  [has_title |-> t, has_company |-> c, company |-> name, has_link |-> l,
   broken |-> b]

CardWithLink == Card(TRUE, TRUE, <<"A">>, TRUE, FALSE)
CardNoLink   == Card(TRUE, TRUE, <<"a">>, FALSE, FALSE)
CardExcluded == Card(TRUE, TRUE, <<"A", "b">>, TRUE, FALSE)
CardNoTitle  == Card(FALSE, TRUE, <<"A">>, TRUE, FALSE)
CardNoCompany == Card(TRUE, FALSE, <<>>, TRUE, FALSE)
CardBroken   == Card(TRUE, TRUE, <<"A">>, TRUE, TRUE)

Cards == {CardWithLink, CardNoLink, CardExcluded, CardNoTitle, CardNoCompany,
          CardBroken}

\* A page (the list soup.find_all returns): `len` cards, the i-th being
\* pattern[((i - 1) % Len(pattern)) + 1].
Page(pattern, n) == [pattern |-> pattern, len |-> n]

EmptyPage == Page(<<>>, 0)

CardAt(page, i) == page.pattern[((i - 1) % Len(page.pattern)) + 1]

SmallPages ==
  {Page(p, Len(p)) : p \in SeqsUpTo(Cards, MaxPageLen) \ {<<>>}}

BigPages ==
  {Page(<<CardNoLink>>, BigPageLen), Page(<<CardNoTitle>>, BigPageLen),
   Page(<<CardExcluded>>, BigPageLen)}

\* The pages of the site a whole session searches.
FewPages ==
  {Page(<<CardNoLink>>, 1), Page(<<CardExcluded, CardNoLink>>, 2),
   Page(<<CardNoTitle, CardBroken>>, 2)}

PagesOf(pool) ==
  IF pool = "small" THEN SmallPages
  ELSE IF pool = "big" THEN BigPages
  ELSE FewPages

\* A call of get_job_description: how the request ends and the page it gets.
DetailCall(resp, page) == [response |-> resp, page |-> page]

NoDetailCall == DetailCall("none", <<>>)

\* The calls the listing fetcher makes for a card: line 123.
CardDetailCalls ==
  {DetailCall("ok", <<DivDescriptionText>>), DetailCall("ok", <<Paragraph>>),
   DetailCall("timeout", <<>>), DetailCall("parse_error", <<Paragraph>>)}

DetailCallsOf(card) == IF card.has_link THEN CardDetailCalls ELSE {NoDetailCall}

\* description = get_job_description(job_url) if job_url else f"Position: ..."
DescriptionOf(card, call) ==
  IF card.has_link
    THEN get_job_description(call.response, call.page)
    ELSE DetailReturn("Position, Company, Location", FALSE)

\* A bug: the description is fetched before the filter is asked.
DetailBeforeFilterFetches(card) ==
  IF card.has_link THEN DetailCall("ok", <<Paragraph>>) ELSE NoDetailCall

\* The filter's continue (line 115) comes before the call of line 123.
DetailBeforeFilter(card) == NoDetailCall

NoPosting ==
  [title |-> "none", company |-> <<>>, location |-> "none",
   description |-> "none", posted_date |-> "none", url |-> "None"]

\* job_data (lines 117-140)
JobData(card, description) ==
  [title |-> "title", company |-> card.company, location |-> "location",
   description |-> description, posted_date |-> "posted",
   url |-> IF card.has_link THEN "url" ELSE "None"]

SampleTitles ==
  <<"Senior role", "Lead role", "Principal role", "Staff role", "role Manager">>

SampleCompanies ==
  << <<"Tech Corp Inc">>, <<"Digital Solutions Ltd">>, <<"Innovation Systems">>,
     <<"Future Technologies">>, <<"Global Tech Partners">> >>

\* A bug: the last sample posting is left out.
get_sample_jobs_four ==
  [i \in 1..4 |->
     [title |-> SampleTitles[i], company |-> SampleCompanies[i],
      location |-> "location", description |-> "sample description",
      posted_date |-> "posted", url |-> "None"]]

get_sample_jobs ==
  [i \in 1..5 |->
     [title |-> SampleTitles[i], company |-> SampleCompanies[i],
      location |-> "location", description |-> "sample description",
      posted_date |-> "posted", url |-> "None"]]

\* A bug: a transport error is handled like any other exception.
AfterRequestExceptionGivesUp == "except_samples"

\* except requests.RequestException: sleep, continue (lines 168-171)
AfterRequestException == "retry_sleep"

FetchIdle ==
  /\ fpc = "idle"
  /\ suspended = FALSE
  /\ yielded = NoPosting
  /\ included = {}
  /\ excluded = {}
  /\ start = 0
  /\ total_jobs_found = 0
  /\ filtered_count = 0
  /\ job_cards = EmptyPage
  /\ card_idx = 0
  /\ sample_idx = 0
  /\ real_yielded = 0
  /\ samples_yielded = <<>>
  /\ catastrophic = FALSE
  /\ site = "up"
  /\ pages_served = 0
  /\ last_request = "none"
  /\ detail_call = NoDetailCall
  /\ cards_served = 0
  /\ page_pool = "small"

\* The generator has been created and next() called: lines 56-64 have run.
FetchStart ==
  /\ fpc = "request"
  /\ suspended = FALSE
  /\ yielded = NoPosting
  /\ included = {<<"a">>}
  /\ excluded = {<<"b">>}
  /\ start = 0
  /\ total_jobs_found = 0
  /\ filtered_count = 0
  /\ job_cards = EmptyPage
  /\ card_idx = 0
  /\ sample_idx = 0
  /\ real_yielded = 0
  /\ samples_yielded = <<>>
  /\ catastrophic = FALSE
  /\ site = "up"
  /\ pages_served = 0
  /\ last_request = "none"
  /\ detail_call = NoDetailCall
  /\ cards_served = 0
  /\ page_pool \in {"small", "big"}

\* Where the for loop stands after the card at card_idx.
AfterCard == IF card_idx + 1 > job_cards.len THEN "page_end" ELSE "cards"

WhileTest == total_jobs_found < max_jobs

\* A bug: the generator runs on its own, like a producer thread.
FetcherMayRunAlways == TRUE

\* The generator's code runs only inside next(generator). Standalone, its
\* consumer is always asking; in a session the one consumer is the for
\* statement of process_jobs (main.py 127), which asks at "next".
FetcherMayRun == mpc = "idle" \/ opc = "next"

\* next(generator) on a generator suspended at a yield: the consumer has
\* taken the posting of that yield.
NextCalled == mpc = "idle" \/ (opc = "next" /\ yielded = NoPosting)

\* The listing site stops answering: every later page request fails.
SiteGoesDown ==
  /\ fpc = "request"
  /\ site = "up"
  /\ site' = "down"
  /\ UNCHANGED <<fpc, suspended, yielded, included, excluded, start,
                 total_jobs_found, filtered_count, job_cards, card_idx,
                 sample_idx, real_yielded, samples_yielded, catastrophic,
                 pages_served, page_pool,
                 last_request, detail_call,
                 cards_served>>
  /\ UNCHANGED notFetch

\* while total_jobs_found < max_jobs is false (line 67).
WhileExit ==
  /\ fpc = "request"
  /\ FetcherMayRun
  /\ ~suspended
  /\ ~WhileTest
  /\ fpc' = "tail"
  /\ UNCHANGED <<suspended, yielded, included, excluded, start,
                 total_jobs_found, filtered_count, job_cards, card_idx,
                 sample_idx, real_yielded, samples_yielded, catastrophic, site,
                 pages_served, page_pool,
                 last_request, detail_call,
                 cards_served>>
  /\ UNCHANGED notFetch

\* The request succeeds and the page has cards (lines 93-103).
RequestPage ==
  /\ fpc = "request"
  /\ FetcherMayRun
  /\ ~suspended
  /\ WhileTest
  /\ site = "up"
  /\ pages_served < MaxPages
  /\ \E page \in PagesOf(page_pool) :
       /\ job_cards' = page
       /\ cards_served' = cards_served + page.len
  /\ card_idx' = 1
  /\ pages_served' = pages_served + 1
  /\ fpc' = "cards"
  /\ last_request' = "page"
  /\ UNCHANGED <<suspended, yielded, included, excluded, start,
                 total_jobs_found, filtered_count, sample_idx, real_yielded,
                 samples_yielded, catastrophic, site, page_pool, detail_call>>
  /\ UNCHANGED notFetch

\* The request succeeds and the page has no cards: break (lines 99-101).
RequestEmptyPage ==
  /\ fpc = "request"
  /\ FetcherMayRun
  /\ ~suspended
  /\ WhileTest
  /\ site = "up"
  /\ job_cards' = EmptyPage
  /\ card_idx' = 0
  /\ fpc' = "tail"
  /\ last_request' = "empty"
  /\ UNCHANGED <<suspended, yielded, included, excluded, start,
                 total_jobs_found, filtered_count, sample_idx, real_yielded,
                 samples_yielded, catastrophic, site, pages_served, page_pool, detail_call,
                 cards_served>>
  /\ UNCHANGED notFetch

\* requests.get or raise_for_status raises a RequestException (lines 168-170).
RequestFails ==
  /\ fpc = "request"
  /\ FetcherMayRun
  /\ ~suspended
  /\ WhileTest
  /\ fpc' = AfterRequestException
  /\ sample_idx' = IF AfterRequestException = "except_samples" THEN 1 ELSE sample_idx
  /\ catastrophic' = (AfterRequestException = "except_samples")
  /\ last_request' = "transport_error"
  /\ UNCHANGED <<suspended, yielded, included, excluded, start,
                 total_jobs_found, filtered_count, job_cards, card_idx,
                 real_yielded, samples_yielded, site, pages_served, page_pool, detail_call,
                 cards_served>>
  /\ UNCHANGED notFetch

\* time.sleep(random.uniform(5, 10)) is over: continue (line 171).
RetrySleepElapsed ==
  /\ fpc = "retry_sleep"
  /\ FetcherMayRun
  /\ fpc' = "request"
  /\ UNCHANGED <<suspended, yielded, included, excluded, start,
                 total_jobs_found, filtered_count, job_cards, card_idx,
                 sample_idx, real_yielded, samples_yielded, catastrophic, site,
                 pages_served, page_pool,
                 last_request, detail_call,
                 cards_served>>
  /\ UNCHANGED notFetch

\* Building or parsing the request raises an exception that is no
\* RequestException: the handler at line 173 starts yielding the samples.
RequestRaises ==
  /\ fpc = "request"
  /\ FetcherMayRun
  /\ ~suspended
  /\ WhileTest
  /\ site = "up"
  /\ fpc' = "except_samples"
  /\ sample_idx' = 1
  /\ catastrophic' = TRUE
  /\ last_request' = "error"
  /\ UNCHANGED <<suspended, yielded, included, excluded, start,
                 total_jobs_found, filtered_count, job_cards, card_idx,
                 real_yielded, samples_yielded, site, pages_served, page_pool, detail_call,
                 cards_served>>
  /\ UNCHANGED notFetch

\* A card without title or company element: only counted (lines 110, 156).
SkipCard ==
  /\ fpc = "cards"
  /\ FetcherMayRun
  /\ ~suspended
  /\ LET card == CardAt(job_cards, card_idx) IN
       /\ ~card.broken
       /\ ~(card.has_title /\ card.has_company)
  /\ total_jobs_found' = total_jobs_found + 1
  /\ card_idx' = card_idx + 1
  /\ fpc' = AfterCard
  /\ UNCHANGED <<suspended, yielded, included, excluded, start, filtered_count,
                 job_cards, sample_idx, real_yielded, samples_yielded,
                 catastrophic, site, pages_served, page_pool,
                 last_request,
                 cards_served>>
  /\ detail_call' = NoDetailCall
  /\ UNCHANGED notFetch

\* A card whose company the filter rejects: continue (lines 114-115).
FilterCard ==
  /\ fpc = "cards"
  /\ FetcherMayRun
  /\ ~suspended
  /\ LET card == CardAt(job_cards, card_idx) IN
       /\ ~card.broken
       /\ card.has_title /\ card.has_company
       /\ ~should_include_company(card.company, included, excluded)
  /\ card_idx' = card_idx + 1
  /\ fpc' = AfterCard
  /\ UNCHANGED <<suspended, yielded, included, excluded, start,
                 total_jobs_found, filtered_count, job_cards, sample_idx,
                 real_yielded, samples_yielded, catastrophic, site,
                 pages_served, page_pool,
                 last_request,
                 cards_served>>
  /\ detail_call' = DetailBeforeFilter(CardAt(job_cards, card_idx))
  /\ UNCHANGED notFetch

\* Extracting the card raises: logged, continue (lines 158-160).
BrokenCard ==
  /\ fpc = "cards"
  /\ FetcherMayRun
  /\ ~suspended
  /\ CardAt(job_cards, card_idx).broken
  /\ card_idx' = card_idx + 1
  /\ fpc' = AfterCard
  /\ UNCHANGED <<suspended, yielded, included, excluded, start,
                 total_jobs_found, filtered_count, job_cards, sample_idx,
                 real_yielded, samples_yielded, catastrophic, site,
                 pages_served, page_pool,
                 last_request,
                 cards_served>>
  /\ detail_call' = NoDetailCall
  /\ UNCHANGED notFetch

\* An accepted card: the description is fetched or built, filtered_count
\* grows and job_data is yielded (lines 117-148).
AcceptCard ==
  /\ fpc = "cards"
  /\ FetcherMayRun
  /\ ~suspended
  /\ LET card == CardAt(job_cards, card_idx) IN
       /\ ~card.broken
       /\ card.has_title /\ card.has_company
       /\ should_include_company(card.company, included, excluded)
       /\ \E call \in DetailCallsOf(card) :
            LET d == DescriptionOf(card, call) IN
              /\ detail_call' = call
              /\ IF d.raised
                   THEN \* the exception reaches line 158: logged, continue
                        /\ card_idx' = card_idx + 1
                        /\ fpc' = AfterCard
                        /\ UNCHANGED <<yielded, filtered_count, real_yielded,
                                       suspended>>
                   ELSE /\ yielded' = JobData(card, d.description)
                        /\ filtered_count' = filtered_count + 1
                        /\ real_yielded' = real_yielded + 1
                        /\ suspended' = TRUE
                        /\ UNCHANGED <<fpc, card_idx>>
  /\ UNCHANGED <<included, excluded, start, total_jobs_found, job_cards,
                 sample_idx, samples_yielded, catastrophic, site,
                 pages_served, page_pool, last_request,
                 cards_served>>
  /\ UNCHANGED notFetch

\* A bug: the accepted cap is never tested.
AcceptedCapNeverReached == FALSE

\* if filtered_count >= max_jobs (lines 152 and 162)
AcceptedCapReached == filtered_count >= max_jobs

\* The consumer asks for the next posting: the generator resumes after the
\* yield at line 148 (lines 152-156).
ResumeAfterCard ==
  /\ fpc = "cards"
  /\ suspended
  /\ NextCalled
  /\ suspended' = FALSE
  /\ yielded' = NoPosting
  /\ IF AcceptedCapReached
       THEN /\ fpc' = "page_end"
            /\ UNCHANGED <<total_jobs_found, card_idx>>
       ELSE /\ total_jobs_found' = total_jobs_found + 1
            /\ card_idx' = card_idx + 1
            /\ fpc' = AfterCard
  /\ UNCHANGED <<included, excluded, start, filtered_count, job_cards,
                 sample_idx, real_yielded, samples_yielded, catastrophic, site,
                 pages_served, page_pool,
                 last_request,
                 cards_served>>
  /\ detail_call' = NoDetailCall
  /\ UNCHANGED notFetch

\* A bug: the offset is the number of postings accepted so far.
NextStartCountsAccepted == filtered_count

\* start += len(job_cards) (line 165)
NextStart == start + job_cards.len

\* After the for loop (lines 162-166).
PageEnd ==
  /\ fpc = "page_end"
  /\ FetcherMayRun
  /\ IF AcceptedCapReached
       THEN /\ fpc' = "tail"
            /\ UNCHANGED start
       ELSE /\ start' = NextStart
            /\ fpc' = "request"
  /\ UNCHANGED <<suspended, yielded, included, excluded, total_jobs_found,
                 filtered_count, job_cards, card_idx, sample_idx, real_yielded,
                 samples_yielded, catastrophic, site, pages_served, page_pool,
                 last_request, detail_call,
                 cards_served>>
  /\ UNCHANGED notFetch

\* yield from get_sample_jobs(role, location): the next sample is yielded
\* (line 176 in the handler, line 182 after it).
YieldSample ==
  /\ fpc \in {"except_samples", "tail_samples"}
  /\ FetcherMayRun
  /\ ~suspended
  /\ sample_idx <= Len(get_sample_jobs)
  /\ yielded' = get_sample_jobs[sample_idx]
  /\ samples_yielded' = Append(samples_yielded, get_sample_jobs[sample_idx])
  /\ suspended' = TRUE
  /\ UNCHANGED <<fpc, included, excluded, start, total_jobs_found,
                 filtered_count, job_cards, card_idx, sample_idx, real_yielded,
                 catastrophic, site, pages_served, page_pool,
                 last_request, detail_call,
                 cards_served>>
  /\ UNCHANGED notFetch

\* The consumer asks for the next posting after a sample.
ResumeAfterSample ==
  /\ fpc \in {"except_samples", "tail_samples"}
  /\ suspended
  /\ NextCalled
  /\ suspended' = FALSE
  /\ yielded' = NoPosting
  /\ sample_idx' = sample_idx + 1
  /\ UNCHANGED <<fpc, included, excluded, start, total_jobs_found,
                 filtered_count, job_cards, card_idx, real_yielded,
                 samples_yielded, catastrophic, site, pages_served, page_pool,
                 last_request, detail_call,
                 cards_served>>
  /\ UNCHANGED notFetch

\* The samples of the handler are exhausted: control leaves the try
\* statement and reaches line 180.
ExceptSamplesDone ==
  /\ fpc = "except_samples"
  /\ FetcherMayRun
  /\ ~suspended
  /\ sample_idx > Len(get_sample_jobs)
  /\ fpc' = "tail"
  /\ UNCHANGED <<suspended, yielded, included, excluded, start,
                 total_jobs_found, filtered_count, job_cards, card_idx,
                 sample_idx, real_yielded, samples_yielded, catastrophic, site,
                 pages_served, page_pool,
                 last_request, detail_call,
                 cards_served>>
  /\ UNCHANGED notFetch

\* if stream_jobs: if not filtered_count: yield from get_sample_jobs(...)
\* (lines 180-182).
AfterTry ==
  /\ fpc = "tail"
  /\ FetcherMayRun
  /\ IF filtered_count = 0
       THEN fpc' = "tail_samples" /\ sample_idx' = 1
       ELSE fpc' = "done" /\ UNCHANGED sample_idx
  /\ UNCHANGED <<suspended, yielded, included, excluded, start,
                 total_jobs_found, filtered_count, job_cards, card_idx,
                 real_yielded, samples_yielded, catastrophic, site,
                 pages_served, page_pool,
                 last_request, detail_call,
                 cards_served>>
  /\ UNCHANGED notFetch

\* The samples after the try statement are exhausted: the generator ends.
TailSamplesDone ==
  /\ fpc = "tail_samples"
  /\ FetcherMayRun
  /\ ~suspended
  /\ sample_idx > Len(get_sample_jobs)
  /\ fpc' = "done"
  /\ UNCHANGED <<suspended, yielded, included, excluded, start,
                 total_jobs_found, filtered_count, job_cards, card_idx,
                 sample_idx, real_yielded, samples_yielded, catastrophic, site,
                 pages_served, page_pool,
                 last_request, detail_call,
                 cards_served>>
  /\ UNCHANGED notFetch

\* The steps of the generator itself.
FetcherStep ==
  \/ WhileExit
  \/ RequestPage
  \/ RequestEmptyPage
  \/ RequestFails
  \/ RetrySleepElapsed
  \/ RequestRaises
  \/ SkipCard
  \/ FilterCard
  \/ BrokenCard
  \/ AcceptCard
  \/ PageEnd
  \/ YieldSample
  \/ ExceptSamplesDone
  \/ AfterTry
  \/ TailSamplesDone

(***************************************************************************)
(* Orchestrator: JobProcessor.process_jobs and handle_analyzed_job         *)
(***************************************************************************)

\* Postings the generator yields in one search, at most.
MaxPostings == 6

\* Size of the live top list: sorted_jobs[:5].
TopN == 5

\* The match scores a scored posting is drawn with.
Scores == {10, 40, 60, 90, 99}

\* The match scores drawn in a whole session.
SessionScores == {40, 90}

ScoreChoices == IF mpc = "idle" THEN Scores ELSE SessionScores

\* ProgressManager: status_placeholder and results_placeholder show
\* something or are empty; total_jobs.
Progress(status, results, total) ==
  [status |-> status, results |-> results, total_jobs |-> total]

\* ProgressManager.clear()
ProgressCleared == Progress(FALSE, FALSE, 0)

\* ProgressManager.update_job_search(count)
update_job_search(p, count) == Progress(TRUE, p.results, count)

\* ProgressManager.update_analysis(count)
update_analysis(p, count) == Progress(p.status, TRUE, p.total_jobs)

\* The k-th posting the generator yields.
Posting(k) == [id |-> k]

NoJob == Posting(0)

NoScoredJob == Scored(NoJob, 0, <<>>)

\* A bug: the posting goes before the postings of equal score.
InsertByScoreBeforeTies(sorted, x) ==
  LET before == SelectSeq(sorted, LAMBDA y : y.match_score > x.match_score)
      after  == SelectSeq(sorted, LAMBDA y : y.match_score <= x.match_score)
  IN before \o <<x>> \o after

\* One step of the stable descending sort: x, which comes after every
\* element of `sorted` in the list being sorted, goes behind the elements
\* whose key is greater or equal.
InsertByScore(sorted, x) ==
  LET before == SelectSeq(sorted, LAMBDA y : y.match_score >= x.match_score)
      after  == SelectSeq(sorted, LAMBDA y : y.match_score < x.match_score)
  IN before \o <<x>> \o after

\* sorted(jobs, key=lambda x: x.get('match_score', 0), reverse=True): a stable
\* sort, equal keys keep the order of the list.
RECURSIVE SortedByScore(_)
SortedByScore(jobs) ==
  IF jobs = <<>> THEN <<>>
  ELSE InsertByScore(SortedByScore(SubSeq(jobs, 1, Len(jobs) - 1)),
                     jobs[Len(jobs)])

\* lst[:n]
Prefix(lst, n) == SubSeq(lst, 1, Min(n, Len(lst)))

\* analyze_matches(resume_text, [j])[0], s being the score analyze_job_match
\* gives: without an API key the ValueError of line 129 is caught at line
\* 150 (matching_engine.py) and the posting returned with score 0.
analyze_matches(j, key, s) ==
  IF ~key THEN Scored(j, 0, <<"Analysis failed">>)
  ELSE Scored(j, s, <<"reasoning">>)

\* A bug: the postings scored before the exception are returned.
ProcessJobsExceptReturnsScored(jobs) == jobs

\* except Exception: st.error(...); return [] (main.py 155-157)
ProcessJobsExcept(jobs) == <<>>

OrchIdle ==
  /\ opc = "idle"
  /\ search_count = 0
  /\ analysis_count = 0
  /\ cur_job = NoJob
  /\ analyzed_job = NoScoredJob
  /\ analyzed_jobs = <<>>
  /\ top_matches = <<>>
  /\ matched_jobs = <<>>
  /\ progress = ProgressCleared
  /\ job_error = FALSE

\* The search button was pressed: the session state is reset (main.py
\* 371-374), a JobProcessor constructed (54-63) and process_jobs called.
OrchStart ==
  /\ opc = "start"
  /\ search_count = 0
  /\ analysis_count = 0
  /\ cur_job = NoJob
  /\ analyzed_job = NoScoredJob
  /\ analyzed_jobs = <<>>
  /\ top_matches = <<>>
  /\ matched_jobs = <<>>
  /\ progress = ProgressCleared
  /\ job_error = FALSE

\* process_jobs up to the for statement: the counters are reset (118-124).
ProcessJobsBegin ==
  /\ opc = "start"
  /\ search_count' = 0
  /\ analysis_count' = 0
  /\ opc' = "next"
  /\ UNCHANGED <<cur_job, analyzed_job, analyzed_jobs, top_matches, matched_jobs,
                 progress, job_error>>
  /\ UNCHANGED notOrch

\* The generator yields a posting; search_count grows (lines 127-141).
GeneratorYields ==
  /\ opc = "next"
  /\ search_count < MaxPostings
  /\ cur_job' = Posting(search_count + 1)
  /\ search_count' = search_count + 1
  /\ progress' = update_job_search(progress, search_count + 1)
  /\ opc' = "got"
  /\ UNCHANGED <<analysis_count, analyzed_job, analyzed_jobs, top_matches,
                 matched_jobs, job_error>>
  /\ UNCHANGED notOrch

\* analyze_matches(self.resume_text, [job])[0] returns the scored posting
\* (lines 144-148).
AnalyzeJob ==
  /\ opc = "got"
  /\ \E s \in ScoreChoices :
       analyzed_job' = analyze_matches(cur_job, api_key, s)
  /\ opc' = "analyzed"
  /\ UNCHANGED <<search_count, analysis_count, cur_job, analyzed_jobs,
                 top_matches, matched_jobs, progress, job_error>>
  /\ UNCHANGED notOrch

\* A bug: the list is replaced by the latest posting.
RecordAnalyzedReplaces(jobs, j) == <<j>>

\* self.analyzed_jobs.append(job_with_match) (line 97)
RecordAnalyzed(jobs, j) == Append(jobs, j)

\* handle_analyzed_job(analyzed_job) (lines 94-114).
HandleAnalyzedJob ==
  /\ opc = "analyzed"
  /\ analyzed_jobs' = RecordAnalyzed(analyzed_jobs, analyzed_job)
  /\ analysis_count' = analysis_count + 1
  /\ top_matches' =
       Prefix(SortedByScore(RecordAnalyzed(analyzed_jobs, analyzed_job)), TopN)
  /\ progress' = update_analysis(progress, analysis_count + 1)
  /\ cur_job' = NoJob
  /\ analyzed_job' = NoScoredJob
  /\ opc' = "next"
  /\ UNCHANGED <<search_count, matched_jobs, job_error>>
  /\ UNCHANGED notOrch

\* The generator is exhausted: process_jobs returns self.analyzed_jobs
\* (line 153) and the finally clause clears the progress displays (160).
\* Without a fetcher attached the generator may end at any time.
GeneratorEnds ==
  /\ opc = "next"
  /\ mpc = "idle" \/ fpc = "done"
  /\ matched_jobs' = analyzed_jobs
  /\ progress' = ProgressCleared
  /\ opc' = "complete"
  /\ UNCHANGED <<search_count, analysis_count, cur_job, analyzed_job,
                 analyzed_jobs, top_matches, job_error>>
  /\ UNCHANGED notOrch

\* An exception escapes the loop: raised by the generator outside its try
\* statement, by a Streamlit call, or by analyze_matches. The handler reports
\* it and returns [], the finally clause clears the progress displays
\* (lines 155-160).
LoopRaises ==
  /\ opc \in {"start", "next", "got", "analyzed"}
  /\ job_error' = TRUE
  /\ matched_jobs' = ProcessJobsExcept(analyzed_jobs)
  /\ progress' = ProgressCleared
  /\ opc' = "failed"
  /\ UNCHANGED <<search_count, analysis_count, cur_job, analyzed_job,
                 analyzed_jobs, top_matches>>
  /\ UNCHANGED notOrch

(***************************************************************************)
(* main: the search button, over one interactive session                   *)
(***************************************************************************)

\* Presses of the search button in one session, at most.
MaxSearches == 2

\* Postings process_jobs receives in one session, at most.
MaxSessionPostings == 5

Files == {"none", "pdf", "bad"}

\* A bug: a file that cannot be read gives an empty resume text.
ResumeOutcomeSwallowsError(file) ==
  IF file = "none" THEN "no_file" ELSE "text"

\* What the press does with the uploader's content: `if not uploaded_file`
\* (main.py 365), then extract_resume_text, which raises for a file PyPDF2
\* cannot read (resume_processor.py 22-23).
ResumeOutcome(file) ==
  IF file = "none" THEN "no_file"
  ELSE IF file = "bad" THEN "raises"
  ELSE "text"

\* A bug: the JobProcessor is kept from one search to the next.
JobProcessorKeepsJobs(old) == old

\* self.analyzed_jobs = [] in JobProcessor.__init__ (main.py 58)
JobProcessorJobs(old) == <<>>

MainIdle ==
  /\ mpc = "idle"
  /\ uploaded_file = "none"
  /\ api_key = TRUE
  /\ analysis_complete = FALSE
  /\ searches = 0
  /\ session_postings = 0
  /\ main_error = "none"

\* The page is open: initialize_session_state has run (main.py 168-179), the
\* environment has the API key or not.
MainStart ==
  /\ mpc = "ready"
  /\ uploaded_file \in Files
  /\ api_key \in BOOLEAN
  /\ analysis_complete = FALSE
  /\ searches = 0
  /\ session_postings = 0
  /\ main_error = "none"

\* The user puts another file into the uploader, or removes it.
ChooseFile ==
  /\ mpc = "ready"
  /\ searches < MaxSearches
  /\ \E f \in Files \ {uploaded_file} : uploaded_file' = f
  /\ UNCHANGED <<mpc, api_key, analysis_complete, searches, session_postings,
                 main_error>>
  /\ UNCHANGED <<csvVars, detailVars, parseVars, filterVars, scoreVars, fetchVars, orchVars>>

\* The button is pressed with no file: st.error, return (lines 365-367).
SearchWithoutResume ==
  /\ mpc = "ready"
  /\ searches < MaxSearches
  /\ ResumeOutcome(uploaded_file) = "no_file"
  /\ searches' = searches + 1
  /\ main_error' = "Please upload your resume first!"
  /\ UNCHANGED <<mpc, uploaded_file, api_key, analysis_complete,
                 session_postings>>
  /\ UNCHANGED <<csvVars, detailVars, parseVars, filterVars, scoreVars, fetchVars, orchVars>>

\* The button is pressed and extract_resume_text raises: the session state
\* was reset and the displays cleared (371-378), the exception is reported
\* at line 405.
SearchResumeFails ==
  /\ mpc = "ready"
  /\ searches < MaxSearches
  /\ ResumeOutcome(uploaded_file) = "raises"
  /\ searches' = searches + 1
  /\ analysis_complete' = FALSE
  /\ top_matches' = <<>>
  /\ progress' = ProgressCleared
  /\ main_error' = "An error occurred"
  /\ UNCHANGED <<mpc, uploaded_file, api_key, session_postings>>
  /\ UNCHANGED <<opc, search_count, analysis_count, cur_job, analyzed_job,
                 analyzed_jobs, matched_jobs, job_error>>
  /\ UNCHANGED <<csvVars, detailVars, parseVars, filterVars, scoreVars, fetchVars>>

\* The button is pressed and the resume text extracted: the session state is
\* reset (371-378), a JobProcessor constructed (385, 54-63) and process_jobs
\* called; the generator object of line 127 is created here, its code runs
\* from the first next().
SearchBegin ==
  /\ mpc = "ready"
  /\ searches < MaxSearches
  /\ ResumeOutcome(uploaded_file) = "text"
  /\ searches' = searches + 1
  /\ analysis_complete' = FALSE
  /\ main_error' = "none"
  /\ mpc' = "processing"
  /\ top_matches' = <<>>
  /\ progress' = ProgressCleared
  /\ analyzed_jobs' = JobProcessorJobs(analyzed_jobs)
  /\ search_count' = 0
  /\ analysis_count' = 0
  /\ cur_job' = NoJob
  /\ analyzed_job' = NoScoredJob
  /\ job_error' = FALSE
  /\ opc' = "start"
  /\ fpc' = "request"
  /\ suspended' = FALSE
  /\ yielded' = NoPosting
  /\ included' = {<<"a">>}
  /\ excluded' = {<<"b">>}
  /\ start' = 0
  /\ total_jobs_found' = 0
  /\ filtered_count' = 0
  /\ job_cards' = EmptyPage
  /\ card_idx' = 0
  /\ sample_idx' = 0
  /\ real_yielded' = 0
  /\ samples_yielded' = <<>>
  /\ catastrophic' = FALSE
  /\ site' = "up"
  /\ pages_served' = 0
  /\ last_request' = "none"
  /\ detail_call' = NoDetailCall
  /\ cards_served' = 0
  /\ page_pool' = "few"
  /\ UNCHANGED <<uploaded_file, api_key, session_postings, matched_jobs>>
  /\ UNCHANGED <<csvVars, detailVars, parseVars, filterVars, scoreVars>>

\* The for statement receives the posting the generator yielded:
\* search_count grows and the count is displayed (main.py 127, 137-141). The
\* posting carries the number of the search that fetched it.
ReceiveJob ==
  /\ mpc = "processing"
  /\ opc = "next"
  /\ suspended
  /\ yielded # NoPosting
  /\ session_postings < MaxSessionPostings
  /\ session_postings' = session_postings + 1
  /\ cur_job' = [search |-> searches] @@ yielded
  /\ yielded' = NoPosting
  /\ search_count' = search_count + 1
  /\ progress' = update_job_search(progress, search_count + 1)
  /\ opc' = "got"
  /\ UNCHANGED <<analysis_count, analyzed_job, analyzed_jobs, top_matches,
                 matched_jobs, job_error>>
  /\ UNCHANGED <<fpc, suspended, included, excluded, start, total_jobs_found,
                 filtered_count, job_cards, card_idx, sample_idx, real_yielded,
                 samples_yielded, catastrophic, site, pages_served, page_pool,
                 last_request, detail_call,
                 cards_served>>
  /\ UNCHANGED <<mpc, uploaded_file, api_key, analysis_complete, searches,
                 main_error>>
  /\ UNCHANGED <<csvVars, detailVars, parseVars, filterVars, scoreVars>>

\* process_jobs has returned: the result is stored and the analysis marked
\* complete (lines 396-402).
SearchEnd ==
  /\ mpc = "processing"
  /\ opc \in {"complete", "failed"}
  /\ analysis_complete' = TRUE
  /\ mpc' = "ready"
  /\ UNCHANGED <<uploaded_file, api_key, searches, session_postings,
                 main_error>>
  /\ UNCHANGED <<csvVars, detailVars, parseVars, filterVars, scoreVars, fetchVars, orchVars>>

(***************************************************************************)
(* CSV export: export_to_csv (utils.py)                                    *)
(***************************************************************************)

\* Rows of the frame exported, at most.
MaxRows == 2

\* Longest match_reasoning of a row.
MaxReasoningLen == 3

\* Characters of a field: a letter, the delimiter, the quote character "Q"
\* and the newline "NL".
CsvAlphabet == {"a", ",", "Q", "NL"}

export_columns ==
  <<"title", "company", "location", "posted_date", "match_score",
    "match_reasoning">>

DigitChars == <<"0", "1", "2", "3", "4", "5", "6", "7", "8", "9">>

\* str(n) for n >= 0
RECURSIVE StrOf(_)
StrOf(n) ==
  IF n < 10 THEN <<DigitChars[n + 1]>>
  ELSE StrOf(n \div 10) \o <<DigitChars[(n % 10) + 1]>>

\* The text of a cell: numbers through str, text as it is.
CellText(row, column) ==
  IF column = "match_score" THEN StrOf(row[column]) ELSE row[column]

\* csv.QUOTE_MINIMAL: a field holding the delimiter, the quote character or
\* a line break is quoted, its quote characters doubled; the line breaks
\* stay in the field.
RECURSIVE DoubleQuotes(_)
DoubleQuotes(f) ==
  IF f = <<>> THEN <<>>
  ELSE (IF Head(f) = "Q" THEN <<"Q", "Q">> ELSE <<Head(f)>>)
         \o DoubleQuotes(Tail(f))

CsvField(f) ==
  IF \E i \in 1..Len(f) : f[i] \in {",", "Q", "NL"}
    THEN <<"Q">> \o DoubleQuotes(f) \o <<"Q">>
    ELSE f

\* One line of the writer: the fields joined by the delimiter, then the
\* line terminator.
RECURSIVE CsvJoin(_)
CsvJoin(fields) ==
  IF Len(fields) = 1 THEN fields[1] \o <<"NL">>
  ELSE fields[1] \o <<",">> \o CsvJoin(Tail(fields))

CsvHeader == CsvJoin([c \in 1..Len(export_columns) |-> <<export_columns[c]>>])

CsvRow(row) ==
  CsvJoin([c \in 1..Len(export_columns) |->
             CsvField(CellText(row, export_columns[c]))])

\* matches_df[export_columns].to_csv(output, index=False); output.getvalue()
RECURSIVE CsvRows(_)
CsvRows(rows) ==
  IF rows = <<>> THEN <<>> ELSE CsvRow(Head(rows)) \o CsvRows(Tail(rows))

export_to_csv(rows) == CsvHeader \o CsvRows(rows)

\* The match_reasoning values of scored postings: non-empty text with no
\* whitespace at either end (matching_engine.py 100-111).
Reasonings ==
  {t \in SeqsUpTo(CsvAlphabet, MaxReasoningLen) : t # <<>> /\ Strip(t) = t}

\* Scored postings as the scorer returns them.
CsvPostings ==
  {Scored([title |-> <<"a">>, company |-> <<"a", ",", "a">>,
           location |-> <<"a">>, description |-> <<"a", "NL", "a">>,
           posted_date |-> <<"a">>, url |-> <<"a">>], s, t) :
     s \in {5, 100}, t \in Reasonings}

CsvIdle ==
  /\ csv_rows = <<>>
  /\ csv_pc = "idle"
  /\ csv_text = <<>>

\* The export button was pressed (main.py 255-256): the frame holds at least
\* one posting, display_results does not get to the button otherwise (218).
CsvInputs ==
  /\ csv_rows \in UNION {[1..n -> CsvPostings] : n \in 1..MaxRows}
  /\ csv_pc = "call"
  /\ csv_text = <<>>

CallExportToCsv ==
  /\ csv_pc = "call"
  /\ csv_text' = export_to_csv(csv_rows)
  /\ csv_pc' = "returned"
  /\ UNCHANGED csv_rows
  /\ UNCHANGED notCsv

(***************************************************************************)
(* Specifications                                                          *)
(***************************************************************************)

\* One search of the orchestrator.
Init ==
  OrchStart /\ FilterIdle /\ ScoreIdle /\ FetchIdle /\ MainIdle /\ CsvIdle
  /\ DetailIdle /\ ParseIdle

Next ==
  \/ ProcessJobsBegin
  \/ GeneratorYields
  \/ AnalyzeJob
  \/ HandleAnalyzedJob
  \/ GeneratorEnds
  \/ LoopRaises

Spec == Init /\ [][Next]_vars

InitFilter ==
  FilterInputs /\ ScoreIdle /\ FetchIdle /\ OrchIdle /\ MainIdle /\ CsvIdle
  /\ DetailIdle /\ ParseIdle

NextFilter == CallShouldInclude

SpecFilter == InitFilter /\ [][NextFilter]_vars

InitScore ==
  ScoreInputs /\ FilterIdle /\ FetchIdle /\ OrchIdle /\ MainIdle /\ CsvIdle
  /\ DetailIdle /\ ParseIdle

NextScore ==
  \/ ApiSuccess
  \/ ApiRateLimitedRetry
  \/ BackoffElapsed
  \/ ApiRateLimitedGiveUp
  \/ ApiError

SpecScore == InitScore /\ [][NextScore]_vars

\* The generator drained by a consumer that asks for the next posting as
\* soon as it has one.
InitFetch ==
  FetchStart /\ FilterIdle /\ ScoreIdle /\ OrchIdle /\ MainIdle /\ CsvIdle
  /\ DetailIdle /\ ParseIdle

NextFetch ==
  \/ SiteGoesDown
  \/ WhileExit
  \/ RequestPage
  \/ RequestEmptyPage
  \/ RequestFails
  \/ RetrySleepElapsed
  \/ RequestRaises
  \/ SkipCard
  \/ FilterCard
  \/ BrokenCard
  \/ AcceptCard
  \/ ResumeAfterCard
  \/ PageEnd
  \/ YieldSample
  \/ ResumeAfterSample
  \/ ExceptSamplesDone
  \/ AfterTry
  \/ TailSamplesDone

SpecFetch == InitFetch /\ [][NextFetch]_vars

\* The consumer keeps asking and the generator keeps running; the site is
\* under no obligation.
FairFetch ==
  /\ WF_vars(FetcherStep)
  /\ WF_vars(ResumeAfterCard)
  /\ WF_vars(ResumeAfterSample)

SpecFetchFair == SpecFetch /\ FairFetch

\* One interactive session: the button, process_jobs and the generator it
\* drives. The site of a session has fewer than max_jobs cards, so the while
\* test of the generator never fails (no WhileExit).
InitSession ==
  MainStart /\ OrchIdle /\ FetchIdle /\ FilterIdle /\ ScoreIdle /\ CsvIdle
  /\ DetailIdle /\ ParseIdle

NextSession ==
  \/ ChooseFile
  \/ SearchWithoutResume
  \/ SearchResumeFails
  \/ SearchBegin
  \/ ProcessJobsBegin
  \/ ReceiveJob
  \/ AnalyzeJob
  \/ HandleAnalyzedJob
  \/ GeneratorEnds
  \/ LoopRaises
  \/ SearchEnd
  \/ SiteGoesDown
  \/ RequestPage
  \/ RequestEmptyPage
  \/ RequestFails
  \/ RetrySleepElapsed
  \/ RequestRaises
  \/ SkipCard
  \/ FilterCard
  \/ BrokenCard
  \/ AcceptCard
  \/ ResumeAfterCard
  \/ PageEnd
  \/ YieldSample
  \/ ResumeAfterSample
  \/ ExceptSamplesDone
  \/ AfterTry
  \/ TailSamplesDone

SpecSession == InitSession /\ [][NextSession]_vars

InitDetail ==
  DetailInputs /\ FilterIdle /\ ScoreIdle /\ FetchIdle /\ OrchIdle /\ MainIdle
  /\ CsvIdle /\ ParseIdle

NextDetail == CallGetJobDescription

SpecDetail == InitDetail /\ [][NextDetail]_vars

InitParse ==
  ParseInputs /\ FilterIdle /\ ScoreIdle /\ FetchIdle /\ OrchIdle /\ MainIdle
  /\ CsvIdle /\ DetailIdle

NextParse == CallParseCompanyList

SpecParse == InitParse /\ [][NextParse]_vars

InitCsv ==
  CsvInputs /\ FilterIdle /\ ScoreIdle /\ FetchIdle /\ OrchIdle /\ MainIdle
  /\ DetailIdle /\ ParseIdle

NextCsv == CallExportToCsv

SpecCsv == InitCsv /\ [][NextCsv]_vars

(***************************************************************************)
(* Claims                                                                  *)
(***************************************************************************)

ScoresOf(jobs) == [i \in 1..Len(jobs) |-> jobs[i].match_score]

IdsOf(jobs) == [i \in 1..Len(jobs) |-> jobs[i].id]

\* C1: after n scored postings were handled, top_matches holds min(5, n)
\* distinct postings, each one of the postings scored in this search, in
\* non-increasing score order; no posting left out has a higher score than
\* one kept, and among equal scores the posting that arrived earlier is
\* ranked first (and is the one kept).
C1_TopFiveStableRanking ==
  LET n == Len(analyzed_jobs)
      top == top_matches
      left_out == {analyzed_jobs[i] : i \in 1..n} \ Range(top)
  IN /\ n = analysis_count
     /\ Len(top) = Min(5, n)
     /\ \A i \in 1..Len(top) :
          \E k \in 1..n : analyzed_jobs[k] = top[i] /\ top[i].id = k
     /\ \A i, k \in 1..Len(top) : i < k =>
          /\ top[i].id # top[k].id
          /\ top[i].match_score >= top[k].match_score
          /\ top[i].match_score = top[k].match_score => top[i].id < top[k].id
     /\ \A out \in left_out : \A i \in 1..Len(top) :
          /\ out.match_score <= top[i].match_score
          /\ out.match_score = top[i].match_score => top[i].id < out.id

\* The scores 40, 90, 90, 10, 60, 99 in arrival order give 99, 90, 90, 60, 40,
\* the first 90 before the second.
C1_Witness ==
  /\ ScoresOf(analyzed_jobs) = <<40, 90, 90, 10, 60, 99>>
  /\ ScoresOf(top_matches) = <<99, 90, 90, 60, 40>>
  /\ IdsOf(top_matches) = <<6, 2, 3, 5, 1>>

FetchDone == fpc = "done"

\* C2: when the page loop ends normally with zero accepted postings, the
\* stream is exactly the 5 sample postings, titled 'Senior <role>',
\* 'Lead <role>', 'Principal <role>', 'Staff <role>', '<role> Manager' in that
\* order, each without a url.
C2_EmptyResultYieldsFiveSamples ==
  (FetchDone /\ ~catastrophic /\ filtered_count = 0) =>
    /\ real_yielded = 0
    /\ Len(samples_yielded) = 5
    /\ [i \in 1..5 |-> samples_yielded[i].title] =
         <<"Senior role", "Lead role", "Principal role", "Staff role",
           "role Manager">>
    /\ \A i \in 1..5 : samples_yielded[i].url = "None"

\* A run that processed at least one page with cards, accepted none of them
\* and ended with the five samples.
C2_Witness ==
  /\ FetchDone
  /\ ~catastrophic
  /\ filtered_count = 0
  /\ start > 0
  /\ Len(samples_yielded) = 5

\* C3: after a catastrophic failure of the page loop the stream holds exactly
\* 5 sample postings, however many postings were accepted before it.
C3_CatastropheYieldsSamplesOnce ==
  (FetchDone /\ catastrophic) => Len(samples_yielded) = 5

\* C4: once the site fails every page request, the fetcher eventually falls
\* back to the sample postings and its sequence ends.
C4_PersistentFailureEndsInFallback ==
  (site = "down") ~> (FetchDone /\ samples_yielded # <<>>)

\* C4, amended: once the site fails every page request and a request is due,
\* the fetcher stays in its request / retry-sleep loop for ever: it yields
\* nothing more, sample or fetched, and changes no counter.
C4_PersistentFailureRetriesForever ==
  [][(site = "down" /\ fpc \in {"request", "retry_sleep"} /\ WhileTest) =>
       /\ fpc' \in {"request", "retry_sleep"}
       /\ UNCHANGED <<start, total_jobs_found, filtered_count, real_yielded,
                      samples_yielded, suspended>>]_vars

\* The site is down and the fetcher, which had yielded a posting before,
\* sleeps before it retries the same page.
C4_Witness ==
  /\ site = "down"
  /\ fpc = "retry_sleep"
  /\ real_yielded > 0
  /\ samples_yielded = <<>>

FilterReturned == filter_pc = "returned"

\* C5: whenever some excluded substring occurs in the lowercased company
\* name, should_include_company returns False, whatever the included set
\* holds (also when the same substring is in the included set).
C5_ExcludedAlwaysRejected ==
  (/\ FilterReturned
   /\ \E s \in excluded_companies : Contains(s, Lower(company)))
  => include_result = FALSE

\* A call where one substring is both excluded and included, occurs in an
\* upper-case company name, and the company was rejected.
C5_Witness ==
  /\ FilterReturned
  /\ company = <<"A", "b">>
  /\ <<"a", "b">> \in excluded_companies
  /\ <<"a", "b">> \in included_companies
  /\ include_result = FALSE

\* C6: when no excluded substring occurs in the lowercased company name, the
\* company is accepted exactly when the included set is empty or some
\* included substring occurs in the lowercased name; with both sets empty
\* every company is accepted.
C6_IncludedDecidesWhenNotExcluded ==
  (/\ FilterReturned
   /\ ~ \E s \in excluded_companies : Contains(s, Lower(company)))
  => /\ include_result =
          (\/ included_companies = {}
           \/ \E s \in included_companies : Contains(s, Lower(company)))
     /\ (included_companies = {} /\ excluded_companies = {}
           => include_result = TRUE)

\* A call with both sets empty that accepted a non-empty company name.
C6_Witness ==
  /\ FilterReturned
  /\ included_companies = {}
  /\ excluded_companies = {}
  /\ Len(company) = MaxCompanyLen
  /\ include_result = TRUE

ScoreReturned == spc = "returned"

\* The parts of a response text as the specification describes them: the
\* text before and after the first '|', and the decimal digits of the left
\* part with every other character removed.
LeftPart(t) == SubSeq(t, 1, FirstBar(t) - 1)

RightPart(t) == SubSeq(t, FirstBar(t) + 1, Len(t))

LeftDigits(t) == SelectSeq(LeftPart(t), IsDecimal)

\* The acceptance condition of the specification.
SpecAccepts(t) ==
  /\ \E i \in 1..Len(t) : t[i] = "|"
  /\ LeftDigits(t) # <<>>
  /\ IntOf(LeftDigits(t)) \in 0..100
  /\ \E i \in 1..Len(RightPart(t)) : ~IsSpace(RightPart(t)[i])

\* C7: a response text is accepted exactly when it holds a '|', the part
\* before the first '|' holds a digit, the integer formed by its digits is in
\* [0, 100] and the part after the first '|' is non-empty once trimmed; then
\* match_score is that integer and match_reasoning the trimmed right part;
\* otherwise match_score is 0 and match_reasoning the parse error text.
C7_ParseAcceptsExactlySpecFormat ==
  (ScoreReturned /\ last_signal = "ok") =>
    IF SpecAccepts(response)
      THEN /\ result.match_score = IntOf(LeftDigits(response))
           /\ result.match_reasoning = Strip(RightPart(response))
      ELSE /\ result.match_score = 0
           /\ result.match_reasoning = <<"Error parsing analysis results">>

\* The same statement for the response texts whose left part holds no
\* character that is a digit for str.isdigit() and not for int().
ParseAgreesOnDecimalText ==
  (/\ ScoreReturned
   /\ last_signal = "ok"
   /\ (\E i \in 1..Len(response) : response[i] = "|")
        => "SUP2" \notin Range(LeftPart(response)))
  => IF SpecAccepts(response)
       THEN /\ result.match_score = IntOf(LeftDigits(response))
            /\ result.match_reasoning = Strip(RightPart(response))
       ELSE /\ result.match_score = 0
            /\ result.match_reasoning = <<"Error parsing analysis results">>

IsErrorText(r) ==
  /\ r # <<>>
  /\ r[1] \in {"Error during analysis", "Error parsing analysis results"}

\* C8: whatever the API does, analyze_job_match raises nothing and returns a
\* scored posting with every field of the input posting and a match_score in
\* [0, 100]; after an exception or a rejected parse the score is 0 and the
\* reasoning an error text.
C8_AlwaysOneScoredPosting ==
  /\ spc # "raised"
  /\ ScoreReturned =>
       /\ DOMAIN result = DOMAIN job \cup {"match_score", "match_reasoning"}
       /\ \A f \in DOMAIN job : result[f] = job[f]
       /\ result.match_score \in 0..100
       /\ last_signal \in {"ok", "rate_limit", "error"}
       /\ last_signal # "ok" =>
            /\ result.match_score = 0
            /\ result.match_reasoning[1] = "Error during analysis"
       /\ last_signal = "ok" =>
            \/ /\ result.match_score = 0
               /\ result.match_reasoning = <<"Error parsing analysis results">>
            \/ /\ result.match_reasoning # <<>>
               /\ Range(result.match_reasoning) \subseteq ResponseAlphabet

\* A call that ended on a non-rate-limit exception after two rate-limit
\* signals and returned the degraded posting.
C8_Witness ==
  /\ ScoreReturned
  /\ last_signal = "error"
  /\ retry_count = 2
  /\ result.match_score = 0
  /\ IsErrorText(result.match_reasoning)

\* C9: at most 5 retries and 6 API calls for one posting; when every call is
\* rate limited the call returns, after the 5th retry, the degraded posting
\* with score 0; a call that has not returned can always take a step.
C9_AtMostFiveRetries ==
  /\ retry_count <= 5
  /\ Len(waits) = retry_count
  /\ api_calls <= 6
  /\ (spc \in {"returned", "raised"} /\ last_signal = "rate_limit") =>
       /\ ScoreReturned
       /\ retry_count = 5
       /\ api_calls = 6
       /\ result.match_score = 0
       /\ IsErrorText(result.match_reasoning)
  /\ spc \in {"enter", "backoff"} => ENABLED NextScore

\* Six rate-limit signals in a row: five waits, then the degraded posting.
C9_Witness ==
  /\ ScoreReturned
  /\ last_signal = "rate_limit"
  /\ api_calls = 6
  /\ Len(waits) = 5
  /\ result.match_score = 0

\* C10: the n-th backoff wait of a posting (the first being retry 0) has base
\* delay min(20 * 2^n, 120): 20, 40, 80, 120, 120; the first final delay
\* lies in [10, 30].
C10_BackoffStartsAtBaseDelay ==
  /\ \A n \in 1..Len(waits) : waits[n] = Min(20 * (2 ^ (n - 1)), 120)
  /\ (spc = "backoff" /\ Len(waits) = 1) => sleeping \in 10..30

\* C11: wait_with_backoff is called with the retry counts 1, 2, ..., the n-th
\* wait of a posting with retry count n; its base delay never exceeds 120
\* seconds, is 120 for every retry count of 3 or more, and does not decrease
\* as the retry count grows.
C11_BackoffCappedAndMonotone ==
  /\ Len(waits) = retry_count
  /\ \A n \in 1..Len(waits) :
       /\ waits[n] <= 120
       /\ n >= 3 => waits[n] = 120
       /\ n > 1 => waits[n - 1] <= waits[n]

\* The wait for retry count 5 is in progress; the wait for retry count 2 was
\* below the cap and the wait for retry count 3 at the cap.
C11_Witness ==
  /\ spc = "backoff"
  /\ retry_count = 5
  /\ waits[2] < 120
  /\ waits[3] = 120
  /\ waits[5] = 120

\* C12: when the API key is missing, the search is aborted before any work
\* starts: no listing page is fetched, no posting is yielded, and no scored
\* posting is produced or ranked.
C12_MissingKeyAbortsBeforeWork ==
  ~api_key =>
    /\ pages_served = 0
    /\ real_yielded = 0
    /\ samples_yielded = <<>>
    /\ analyzed_jobs = <<>>
    /\ top_matches = <<>>
    /\ matched_jobs = <<>>

\* What the code does without the key: the search runs to its end and every
\* posting of its result has score 0 and the reasoning "Analysis failed".
MissingKeySearchCompletes ==
  /\ ~api_key
  /\ analysis_complete
  /\ main_error = "none"
  /\ ~job_error
  /\ pages_served > 0
  /\ Len(matched_jobs) >= 2
  /\ \A i \in 1..Len(matched_jobs) :
       /\ matched_jobs[i].match_score = 0
       /\ matched_jobs[i].match_reasoning = <<"Analysis failed">>

\* C13: a press of the search button with no file in the uploader, or with a
\* file whose text cannot be extracted, starts no search: an error is
\* reported, the listing fetcher is not invoked, no posting is received or
\* scored, and analysis_complete is not set to true; process_jobs only ever
\* runs with an extractable file.
C13_NoResumeAbortsSearch ==
  /\ [](mpc = "processing" => uploaded_file = "pdf")
  /\ [][(searches' = searches + 1 /\ uploaded_file # "pdf") =>
          /\ mpc' = "ready"
          /\ main_error' # "none"
          /\ UNCHANGED fetchVars
          /\ UNCHANGED <<opc, search_count, analysis_count, cur_job,
                         analyzed_job, analyzed_jobs, matched_jobs>>
          /\ analysis_complete' => analysis_complete]_vars

\* A first search completed with results; the second press found a file that
\* cannot be read and was aborted.
C13_Witness ==
  /\ searches = 2
  /\ mpc = "ready"
  /\ uploaded_file = "bad"
  /\ main_error = "An error occurred"
  /\ ~analysis_complete
  /\ matched_jobs # <<>>
  /\ fpc = "done"

\* C14: a run of the fetcher yields at most 3000 fetched postings; once the
\* 3000th has been yielded no further card is processed and no further page
\* is requested: the generator only leaves its loops and ends.
C14_AcceptedCapStopsFetcher ==
  /\ [](real_yielded <= 3000 /\ filtered_count = real_yielded)
  /\ [][real_yielded = 3000 =>
          /\ UNCHANGED <<card_idx, job_cards, start, pages_served,
                         last_request, real_yielded, total_jobs_found>>
          /\ fpc' \in {"cards", "page_end", "tail", "done"}
          /\ fpc' = "cards" => fpc = "cards"]_vars

\* The generator ended after its 3000th posting, with cards of the second
\* page left unprocessed.
C14_Witness ==
  /\ FetchDone
  /\ real_yielded = 3000
  /\ samples_yielded = <<>>
  /\ pages_served = 2
  /\ card_idx < job_cards.len

\* A page request has just been made: its page is about to be processed, or
\* it failed and the retry sleep is on, or its page was empty.
RequestJustMade ==
  \/ fpc = "cards" /\ card_idx = 1 /\ ~suspended
  \/ fpc = "retry_sleep"
  \/ fpc = "tail" /\ last_request = "empty"

\* C15: once the cards seen over all pages (accepted, skipped for a missing
\* title or company, or rejected by the company filter) have reached 3000,
\* no further page request is made: every request is made with fewer than
\* 3000 cards seen on the pages before it (start counts them, line 165).
C15_SeenCapStopsRequests == RequestJustMade => start < 3000

\* What the code counts: total_jobs_found leaves out the cards the company
\* filter rejected and the cards whose extraction raised.
SeenCapCountsUnfilteredCards == RequestJustMade => total_jobs_found < max_jobs

\* A third page was requested after 3002 cards, all rejected by the filter.
FilteredCardsPassSeenCap ==
  /\ pages_served = 3
  /\ start = 2 * BigPageLen
  /\ total_jobs_found = 0
  /\ filtered_count = 0

\* C16: a page request that fails with a transport error changes nothing but
\* the generator's position: the retry sleep follows, then the same request
\* with the same start offset; the counts are unchanged, nothing is yielded,
\* neither the sample fallback nor the end of the generator follows. The
\* state after the sleep is the state before the failed request, so this
\* holds for any number of failures in a row.
C16_TransportFailureChangesNothing ==
  /\ [][fpc = "request" /\ fpc' # fpc /\ last_request' = "transport_error" =>
          /\ fpc' = "retry_sleep"
          /\ UNCHANGED <<suspended, yielded, included, excluded, start,
                         total_jobs_found, filtered_count, job_cards, card_idx,
                         sample_idx, real_yielded, samples_yielded, catastrophic,
                         site, pages_served, page_pool>>]_vars
  /\ [][fpc = "retry_sleep" =>
          /\ fpc' = "request"
          /\ UNCHANGED <<suspended, yielded, included, excluded, start,
                         total_jobs_found, filtered_count, job_cards, card_idx,
                         sample_idx, real_yielded, samples_yielded, catastrophic,
                         site, pages_served, page_pool, last_request>>]_vars

\* The site is up; a request for a later page failed after a posting of an
\* earlier page was yielded, and the retry sleep is on.
C16_Witness ==
  /\ fpc = "retry_sleep"
  /\ site = "up"
  /\ last_request = "transport_error"
  /\ start > 0
  /\ real_yielded > 0
  /\ samples_yielded = <<>>

\* Postings the generator of the running search has yielded so far.
YieldedSoFar == real_yielded + Len(samples_yielded)

\* Every posting yielded so far was scored and recorded.
AllRecorded ==
  /\ search_count = YieldedSoFar
  /\ analysis_count = YieldedSoFar
  /\ Len(analyzed_jobs) = YieldedSoFar
  /\ top_matches = Prefix(SortedByScore(analyzed_jobs), 5)
  /\ cur_job = NoJob

\* C17: fetching and scoring are strictly interleaved. While a posting is
\* being scored or recorded the generator stands at the yield that handed it
\* over; the generator processes the next card, requests the next page or
\* yields the next posting only when every posting it has yielded so far was
\* scored, counted and ranked in the top-5 buffer; the posting scored is the
\* one yielded, alone.
C17_FetchAndScoreInterleaved ==
  /\ [](mpc = "processing" /\ opc \in {"got", "analyzed"} =>
          /\ suspended
          /\ search_count = YieldedSoFar
          /\ analysis_count = YieldedSoFar - 1
          /\ Len(analyzed_jobs) = YieldedSoFar - 1
          /\ opc = "analyzed" =>
               \A f \in DOMAIN cur_job : analyzed_job[f] = cur_job[f])
  /\ [](mpc = "processing" /\ opc = "next" /\ ~suspended => AllRecorded)
  /\ [][mpc = "processing" /\ opc \in {"got", "analyzed"} =>
          UNCHANGED <<fpc, suspended, yielded, start, total_jobs_found,
                      filtered_count, job_cards, card_idx, sample_idx,
                      real_yielded, samples_yielded, pages_served,
                      last_request>>]_vars
  /\ [][(/\ mpc = "processing" /\ mpc' = "processing"
          /\ <<fpc, card_idx, sample_idx, pages_served, real_yielded,
                samples_yielded, last_request>>' #
             <<fpc, card_idx, sample_idx, pages_served, real_yielded,
               samples_yielded, last_request>>)
         => opc = "next" /\ AllRecorded]_vars

\* The generator is going through the cards of the third page; the two
\* postings it yielded before are scored and ranked, the second above the
\* first.
C17_Witness ==
  /\ mpc = "processing"
  /\ opc = "next"
  /\ fpc = "cards"
  /\ ~suspended
  /\ pages_served = 3
  /\ real_yielded = 2
  /\ ScoresOf(analyzed_jobs) = <<40, 90>>
  /\ ScoresOf(top_matches) = <<90, 40>>

\* C18: when an exception escapes the loop of process_jobs, process_jobs
\* reports it and returns an empty list, however many postings it had scored,
\* and the progress displays are cleared.
C18_EscapedExceptionGivesEmptyResult ==
  opc = "failed" =>
    /\ job_error
    /\ matched_jobs = <<>>
    /\ progress = ProgressCleared

\* The exception came while the fourth posting was being scored: three
\* postings were scored and ranked, none is returned.
C18_Witness ==
  /\ opc = "failed"
  /\ search_count = 4
  /\ analysis_count = 3
  /\ Len(top_matches) = 3
  /\ matched_jobs = <<>>

\* The postings of the list were all fetched by the search now running.
OfThisSearch(jobs) == \A i \in 1..Len(jobs) : jobs[i].search = searches

\* C19: a search starts from a clean state: when process_jobs is entered the
\* two counters are 0 and the list of scored postings and the top-5 buffer
\* are empty; throughout the search the list, the buffer and the result hold
\* only postings fetched by this search.
C19_SearchStartsClean ==
  /\ (mpc = "processing" /\ opc \in {"start", "next"} /\ fpc = "request"
        /\ pages_served = 0 /\ last_request = "none") =>
       /\ search_count = 0
       /\ analysis_count = 0
       /\ analyzed_jobs = <<>>
       /\ top_matches = <<>>
  /\ mpc = "processing" =>
       /\ OfThisSearch(analyzed_jobs)
       /\ OfThisSearch(top_matches)
       /\ Range(top_matches) \subseteq Range(analyzed_jobs)
       /\ opc \in {"complete", "failed"} => OfThisSearch(matched_jobs)

\* The second search has scored its first posting; the result of the first
\* search, two postings, is still in the session state.
C19_Witness ==
  /\ mpc = "processing"
  /\ searches = 2
  /\ Len(matched_jobs) = 2
  /\ matched_jobs[1].search = 1
  /\ analysis_count = 1
  /\ Len(top_matches) = 1
  /\ top_matches[1].search = 2

\* Lines of a text: each ends with a newline.
LineCount(text) == Cardinality({i \in 1..Len(text) : text[i] = "NL"})

\* C20: for N scored postings, whatever non-empty trimmed text their
\* match_reasoning is, the text export_to_csv returns has exactly N + 1 lines,
\* the first being the header title,company,location,posted_date,
\* match_score,match_reasoning.
C20_CsvHasOneLinePerPosting ==
  csv_pc = "returned" =>
    /\ LineCount(csv_text) = Len(csv_rows) + 1
    /\ SubSeq(csv_text, 1, 12) =
         <<"title", ",", "company", ",", "location", ",", "posted_date", ",",
           "match_score", ",", "match_reasoning", "NL">>

\* The same for postings whose match_reasoning holds no line break.
CsvOneLinePerSingleLineReasoning ==
  (/\ csv_pc = "returned"
   /\ \A i \in 1..Len(csv_rows) : "NL" \notin Range(csv_rows[i].match_reasoning))
  => /\ LineCount(csv_text) = Len(csv_rows) + 1
     /\ SubSeq(csv_text, 1, 12) = CsvHeader

DetailReturned == dpc = "returned"

\* C21: every successful detail fetch is followed by the 1-2 second pause
\* before get_job_description returns, whether the description was found
\* through a selector, through a keyword, or not at all.
C21_PauseFollowsSuccessfulFetch ==
  (DetailReturned /\ detail_response = "ok") => detail_result.paused

\* What the code does: the pause of line 221 is reached only when no selector
\* and no keyword found an element, and the sentinel is then returned.
PauseOnlyWhenNothingFound ==
  DetailReturned =>
    (detail_result.paused <=>
       /\ detail_response = "ok"
       /\ SelectorHits(detail_page) = {}
       /\ KeywordHits(detail_page) = {})

\* The call made for the current card failed inside get_job_description.
DetailCallFailed == detail_call.response \in DetailFailures

\* C22: a transport or parse failure inside get_job_description never aborts
\* the pagination loop: the call returns the sentinel without raising, the
\* listing fetcher yields the posting of that card with the sentinel as its
\* description, and when the consumer asks again the loop goes on with the
\* next card of the page.
C22_DetailFailureNeverAbortsLoop ==
  /\ [](DetailCallFailed =>
          /\ get_job_description(detail_call.response, detail_call.page)
               = DetailReturn(DetailSentinel, FALSE)
          /\ fpc = "cards"
          /\ suspended
          /\ catastrophic = FALSE
          /\ yielded = JobData(CardAt(job_cards, card_idx), DetailSentinel))
  /\ [][(DetailCallFailed /\ suspended /\ ~suspended' /\ ~AcceptedCapReached) =>
          /\ card_idx' = card_idx + 1
          /\ total_jobs_found' = total_jobs_found + 1
          /\ fpc' = AfterCard
          /\ catastrophic' = FALSE]_vars

\* A detail request failed for the first card of a page of two, and the
\* posting of that card is being handed over.
C22_Witness ==
  /\ DetailCallFailed
  /\ suspended
  /\ card_idx = 1
  /\ job_cards.len = 2
  /\ yielded.description = DetailSentinel
  /\ yielded.url = "url"

\* For every failure and every page, the call returns the sentinel.
DetailFailureReturnsSentinel ==
  (dpc # "call" /\ detail_response \in DetailFailures) =>
    /\ DetailReturned
    /\ detail_result = DetailReturn(DetailSentinel, FALSE)

\* C23: a failure of the API call that is no rate-limit signal is never
\* retried: no API call follows it and the posting is returned with
\* match_score 0 and an error text; every API call after the first follows a
\* rate-limit signal, so a posting whose call failed without any rate-limit
\* signal has had exactly one API call.
C23_OnlyRateLimitIsRetried ==
  /\ [](last_signal = "error" =>
          /\ ScoreReturned
          /\ result.match_score = 0
          /\ result.match_reasoning[1] = "Error during analysis"
          /\ api_calls = Len(waits) + 1
          /\ (waits = <<>> => api_calls = 1))
  /\ [][api_calls' # api_calls =>
          /\ api_calls' = api_calls + 1
          /\ last_signal \in {"none", "rate_limit"}
          /\ (api_calls > 0 => last_signal = "rate_limit")]_vars

\* The first API call of a posting failed without a rate-limit signal and
\* the degraded posting was returned after that one call.
C23_Witness ==
  /\ ScoreReturned
  /\ last_signal = "error"
  /\ api_calls = 1
  /\ waits = <<>>
  /\ result.match_score = 0

\* The card the for loop is at has a title and a company, and its company
\* passes the filter.
CardPasses ==
  LET card == CardAt(job_cards, card_idx) IN
    /\ card.has_title
    /\ card.has_company
    /\ should_include_company(card.company, included, excluded)

\* The for loop is about to process the card at card_idx.
AtCard == fpc = "cards" /\ ~suspended

\* C24: the filter comes before the detail fetch: processing a card calls
\* get_job_description only if the card has a title and a company and its
\* company passed should_include_company; a card that is skipped or filtered
\* out causes no detail request and is not yielded.
C24_FilterBeforeDetailFetch ==
  [][AtCard =>
       /\ (detail_call' # NoDetailCall =>
             CardPasses /\ CardAt(job_cards, card_idx).has_link)
       /\ (~CardPasses =>
             /\ detail_call' = NoDetailCall
             /\ yielded' = NoPosting
             /\ ~suspended'
             /\ real_yielded' = real_yielded
             /\ filtered_count' = filtered_count
             /\ card_idx' = card_idx + 1)]_vars

\* A card with a link whose company is excluded has just been passed over:
\* nothing was requested and nothing yielded for it.
C24_Witness ==
  /\ fpc \in {"cards", "page_end"}
  /\ ~suspended
  /\ card_idx > 1
  /\ CardAt(job_cards, card_idx - 1) = CardExcluded
  /\ detail_call = NoDetailCall
  /\ yielded = NoPosting

\* The page in job_cards has not been added to the offset: it is being
\* processed, or the accepted cap ended the loop inside it.
PageNotCounted ==
  \/ fpc \in {"cards", "page_end"}
  \/ (AcceptedCapReached /\ fpc \notin {"request", "retry_sleep"})

\* C25: pagination advances by the number of cards seen: leaving a page that
\* did not hit the accepted cap adds the number of its cards (accepted,
\* skipped and filtered out alike) to start, nothing else changes start, and
\* so start is the number of cards of all the pages processed so far.
C25_OffsetIsCardsSeen ==
  /\ [](start = cards_served - (IF PageNotCounted THEN job_cards.len ELSE 0))
  /\ [][/\ (fpc = "page_end" /\ fpc' # fpc /\ ~AcceptedCapReached) =>
             (start' = start + job_cards.len /\ fpc' = "request")
        /\ start' # start => fpc = "page_end"]_vars

\* Two pages of two cards processed, with accepted, skipped and filtered-out
\* cards among them: the next request starts at offset 4.
C25_Witness ==
  /\ fpc = "request"
  /\ pages_served = 2
  /\ start = 4
  /\ filtered_count = 1
  /\ total_jobs_found = 2

SearchComplete == opc = "complete"

\* C26: the result list process_jobs delivers when a search completes (the
\* list the summary and the CSV export are made from) is ordered by
\* match_score descending, ties in arrival order.
C26_FinalResultRanked ==
  SearchComplete => matched_jobs = SortedByScore(analyzed_jobs)

\* What the code does: the delivered list is self.analyzed_jobs, in arrival
\* order; only top_matches is ranked.
FinalResultInArrivalOrder ==
  SearchComplete =>
    /\ matched_jobs = analyzed_jobs
    /\ \A i \in 1..Len(matched_jobs) : matched_jobs[i].id = i
    /\ top_matches = Prefix(SortedByScore(analyzed_jobs), TopN)

\* The posting a scored posting was made from.
PostingOf(scored) ==
  [f \in DOMAIN scored \ {"match_score", "match_reasoning", "search"} |->
     scored[f]]

\* C27: during a search scored <= seen <= scored + 1; seen equals scored
\* whenever the loop is between two postings; and when the search completes
\* without an exception the result has one scored posting for each posting
\* the listing fetcher yielded, in the order yielded.
C27_CountersAndNoLoss ==
  mpc = "processing" =>
    /\ analysis_count <= search_count
    /\ search_count <= analysis_count + 1
    /\ opc \in {"next", "complete"} => search_count = analysis_count
    /\ opc \in {"got", "analyzed"} => search_count = analysis_count + 1
    /\ SearchComplete =>
         /\ Len(matched_jobs) = YieldedSoFar
         /\ analysis_count = YieldedSoFar
         /\ search_count = YieldedSoFar
         /\ \A i \in 1..Len(matched_jobs) :
              /\ matched_jobs[i].search = searches
              /\ matched_jobs[i].match_score \in SessionScores \cup {0}
              /\ i > real_yielded =>
                   PostingOf(matched_jobs[i]) = samples_yielded[i - real_yielded]
              /\ i <= real_yielded => matched_jobs[i].title = "title"

\* A search completed after the fetcher yielded two postings of the site:
\* both are in the result.
C27_Witness ==
  /\ mpc = "processing"
  /\ SearchComplete
  /\ real_yielded = 2
  /\ samples_yielded = <<>>
  /\ analysis_count = 2
  /\ Len(matched_jobs) = 2

ParseReturned == parse_pc = "returned"

\* The company names the consequences of C28 are checked on.
ProbeCompanies == SeqsUpTo(CompanyAlphabet, MaxCompanyLen)

\* Every line of the text is empty or whitespace.
AllLinesBlank(text) == \A i \in 1..Len(text) : IsSpace(text[i])

\* C28: for every filter text, parse_company_list returns a set of trimmed,
\* lowercase, non-empty strings, one for each non-blank line; blank lines
\* give no entry, so a text of blank lines only gives the empty set, and a
\* company is rejected by the set as exclude list, or accepted by it as
\* include list, only through a non-empty entry its lowercased name contains.
C28_ParsedEntriesNonEmptyTrimmedLower ==
  ParseReturned =>
    /\ <<>> \notin parsed
    /\ \A e \in parsed :
         /\ Strip(e) = e
         /\ Lower(e) = e
         /\ "NL" \notin Range(e)
         /\ Contains(e, Lower(companies_text))
    /\ AllLinesBlank(companies_text) <=> parsed = {}
    /\ \A c \in ProbeCompanies :
         /\ ~should_include_company(c, {}, parsed) =>
              \E e \in parsed : e # <<>> /\ Contains(e, Lower(c))
         /\ (parsed # {} /\ should_include_company(c, parsed, {})) =>
              \E e \in parsed : e # <<>> /\ Contains(e, Lower(c))
         /\ parsed = {} => should_include_company(c, {}, parsed)

\* A text with a blank line between two names, one in capitals: two
\* entries, none empty.
C28_Witness ==
  /\ ParseReturned
  /\ companies_text = <<"A", "NL", "NL", "b">>
  /\ parsed = {<<"a">>, <<"b">>}

=============================================================================
